---- MODULE Spec2Model ----
(***************************************************************************)
(* Model of the Bilman deployment helper: the project analyzer             *)
(* (src/project_analyzer.py), the fix engine (src/fix_engine.py), the      *)
(* configuration manager (src/config_manager.py), the configuration form   *)
(* (src/web_interface.py) and the orchestrator (src/deploy.py).            *)
(*                                                                         *)
(* A project tree is a function from paths <<dir, name>> to file contents. *)
(* A file content is a sequence of tokens (strings); the regular           *)
(* expressions and substring tests of the code are modelled on tokens,     *)
(* optional whitespace being left out.  The documents of the configuration *)
(* directory are sequences of members <<key, value>>.                      *)
(***************************************************************************)
EXTENDS Integers, Sequences, FiniteSets, TLC

VARIABLES
    tree,             \* the project directory: path -> content
    analysis_result,  \* ProjectAnalyzer.analysis_result (src/project_analyzer.py:18)
    report,           \* the report the caller holds (return value of analyze)
    fixes_applied,    \* FixEngine.fixes_applied (src/fix_engine.py:18)
    ret,              \* return value of the last apply_fixes call
    last,             \* record of the last operation (history, for the properties)
    nAnalyze,         \* number of analyze calls so far
    nApply,           \* number of apply_fixes calls so far
    nEdit,            \* number of edits of the tree by the environment
    root,             \* what the path of the project directory is: see RootKinds
    exc,              \* the last call left its entry point with an exception
    request,          \* argument of the last configuration call
    response,         \* result of the last configuration call
    nConfig,          \* number of configuration calls so far
    stages            \* the stages main() has run so far, with their outcomes

configVars == <<request, response, nConfig>>
vars == <<tree, analysis_result, report, fixes_applied, ret, last, nAnalyze, nApply, nEdit,
          root, exc, request, response, nConfig, stages>>

\* ---------------------------------------------------------------- bounds
MaxAnalyze == 2
MaxApply == 2
MaxEdit == 1
MaxConfig == 2

\* ---------------------------------------------------------------- sequences
RECURSIVE SeqOfSet(_)
SeqOfSet(S) ==
    IF S = {} THEN <<>>
    ELSE LET x == CHOOSE y \in S : \A z \in S : y <= z
         IN  <<x>> \o SeqOfSet(S \ {x})

Range(s) == {s[i] : i \in 1..Len(s)}

RECURSIVE Flatten(_)
Flatten(ss) == IF ss = <<>> THEN <<>> ELSE Head(ss) \o Flatten(Tail(ss))

Contains(s, x) == \E i \in 1..Len(s) : s[i] = x

\* the sub-sequence w occurs in s at position i
At(s, i, w) == /\ i >= 1
               /\ i + Len(w) - 1 <= Len(s)
               /\ \A k \in 1..Len(w) : s[i + k - 1] = w[k]

\* ---------------------------------------------------------------- paths
Root == ""
Path(d, n) == <<d, n>>
DirOf(p) == p[1]
NameOf(p) == p[2]

\* os.walk order of the model: the root's files first, then the sub-directories
NameOrder ==
    << "package.json", "requirements.txt", "setup.py", "pyproject.toml",
       "composer.json", "go.mod", "go.sum", "Gemfile",
       "app.js", "server.js", "index.js", "main.js",
       "app.py", "main.py", "server.py", "run.py", "settings.py",
       "index.php", "index.html", "lib.rb",
       ".env", ".env.production", "environment.ts", ".htaccess",
       "DEPLOYMENT_NOTES.md", "start.sh", "big.bin" >>
DirOrder == << "", "src", "node_modules", ".git" >>
Names == Range(NameOrder)
Dirs == Range(DirOrder)

WalkOrder ==
    Flatten([i \in 1..Len(DirOrder) |->
               [j \in 1..Len(NameOrder) |-> Path(DirOrder[i], NameOrder[j])]])

\* file.endswith(ext) for the extensions the code tests
Ext(n) ==
    CASE n \in {"app.py", "main.py", "server.py", "run.py", "settings.py", "setup.py"} -> ".py"
      [] n \in {"app.js", "server.js", "index.js", "main.js"} -> ".js"
      [] n \in {"package.json", "composer.json"} -> ".json"
      [] n = "index.php" -> ".php"
      [] n = "index.html" -> ".html"
      [] n = "lib.rb" -> ".rb"
      [] n = "environment.ts" -> ".ts"
      [] n = "requirements.txt" -> ".txt"
      [] n = ".env" -> ".env"
      [] OTHER -> ""

StartsWithDot(n) == n \in {".env", ".env.production", ".htaccess", ".git"}

\* the project directory is a directory that can be listed, does not exist, is a
\* regular file, or is a directory without read permission
RootKinds == {"dir", "missing", "file", "unreadable"}

Exists(t, p) == p \in DOMAIN t
RootExists(t, n) == Exists(t, Path(Root, n))
Write(t, p, c) == [q \in (DOMAIN t) \cup {p} |-> IF q = p THEN c ELSE t[q]]
Remove(t, p) == [q \in (DOMAIN t) \ {p} |-> t[q]]
EmptyTree == [q \in {} |-> <<>>]

\* the files of t in walk order, the directories in `pruned` left out
Walk(t, pruned) ==
    SelectSeq(WalkOrder, LAMBDA p : Exists(t, p) /\ (DirOf(p) \notin pruned))

\* the sub-directories of t in walk order
SubDirs(t, pruned) ==
    SelectSeq(DirOrder, LAMBDA d : /\ d # Root
                                   /\ d \notin pruned
                                   /\ \E p \in DOMAIN t : DirOf(p) = d)

\* ---------------------------------------------------------------- tokens
NL == "\n"
Malformed == "<not json>"
Undecodable == "<invalid utf-8>"
Huge == "<more than 100 MiB>"

\* int(match) of a run of digits
NumVal(tok) ==
    CASE tok = "80" -> 80
      [] tok = "3000" -> 3000
      [] tok = "5000" -> 5000
      [] tok = "8000" -> 8000
      [] tok = "8080" -> 8080
      [] tok = "70000" -> 70000
      [] OTHER -> 0 - 1
IsNum(tok) == NumVal(tok) >= 0

\* ---------------------------------------------------------------- token tables
\* what the port patterns of _detect_port_config see in a token, in order:
\* a keyword (matched case-insensitively), a run of digits, or the end of a line
Kw(w) == [k |-> w, v |-> 0]
Num(n) == [k |-> "num", v |-> n]
Eol == [k |-> "nl", v |-> 0]

PortLex(tok) ==
    CASE IsNum(tok) -> <<Num(NumVal(tok))>>
      [] tok = NL -> <<Eol>>
      [] tok \in {".listen(", "listen", "LISTEN"} -> <<Kw("listen")>>
      [] tok \in {"port", "PORT", "process.env.PORT", "os.environ.get(PORT"} -> <<Kw("port")>>
      [] tok \in {"createServer", "server"} -> <<Kw("server")>>
      [] tok = "0.0.0.0" -> <<Num(0), Num(0), Num(0), Num(0)>>
      [] tok = "127.0.0.1" -> <<Num(127), Num(0), Num(0), Num(1)>>
      [] tok = "const PORT = process.env.PORT || 3000;" -> <<Kw("port"), Kw("port"), Num(3000)>>
      [] tok = "console.log(Server running on port PORT);" -> <<Kw("server"), Kw("port"), Kw("port")>>
      [] tok = "print(Starting server on port)" -> <<Kw("server"), Kw("port"), Kw("port")>>
      [] tok = "redis://cache:6379" -> <<Num(6379)>>
      [] OTHER -> <<>>

\* the sensitive keywords of _identify_potential_issues a lower-cased token contains
Sensitive(tok) ==
    CASE tok \in {"localhost", "LOCALHOST"} -> {"localhost"}
      [] tok = "127.0.0.1" -> {"127.0.0.1"}
      [] tok = "password" -> {"password"}
      [] tok = "SECRET_KEY" -> {"secret"}
      [] OTHER -> {}

\* the database indicators of _detect_database_config a lower-cased token contains
DbIndicators(tok) ==
    CASE tok = "mongoose" -> {"mongodb"}
      [] tok = "redis://cache:6379" -> {"redis"}
      [] OTHER -> {}

\* the framework names a lower-cased requirements.txt token contains
ReqFrameworks(tok) ==
    CASE tok \in {"flask", "Flask==2.0"} -> {"flask"}
      [] tok = "Django" -> {"django"}
      [] tok = "fastapi" -> {"fastapi"}
      [] tok = "streamlit" -> {"streamlit"}
      [] OTHER -> {}

\* the dependency a package.json token declares (dependencies or devDependencies)
PkgDependency(tok) ==
    CASE tok = "dependencies: {express}" -> {"express"}
      [] tok = "devDependencies: {react}" -> {"react"}
      [] OTHER -> {}

\* open(path) for reading and read() with strict decoding raises on undecodable bytes
ReadOk(t, p) == Exists(t, p) /\ ~Contains(t[p], Undecodable)
\* json.load raises on a document that is not JSON
JsonOk(t, p) == ReadOk(t, p) /\ ~Contains(t[p], Malformed)

\* ---------------------------------------------------------------- analyzer
\* a variant that does not look for loose markup files
DetectedWithoutStatic(t) ==
    LET rootNames == {NameOf(p) : p \in {q \in DOMAIN t : DirOf(q) = Root}}
    IN  [ nodejs |-> "package.json" \in rootNames,
          python |-> rootNames \cap {"requirements.txt", "setup.py", "pyproject.toml"} # {},
          php    |-> \/ "composer.json" \in rootNames
                     \/ \E n \in rootNames : Ext(n) = ".php",
          go     |-> rootNames \cap {"go.mod", "go.sum"} # {},
          ruby   |-> "Gemfile" \in rootNames,
          static |-> FALSE ]

\* _detect_project_type: primary is set only while it is still "unknown"
Detected(t) ==
    LET rootNames == {NameOf(p) : p \in {q \in DOMAIN t : DirOf(q) = Root}}
    IN  [ nodejs |-> "package.json" \in rootNames,
          python |-> rootNames \cap {"requirements.txt", "setup.py", "pyproject.toml"} # {},
          php    |-> \/ "composer.json" \in rootNames
                     \/ \E n \in rootNames : Ext(n) = ".php",
          go     |-> rootNames \cap {"go.mod", "go.sum"} # {},
          ruby   |-> "Gemfile" \in rootNames,
          static |-> \E n \in rootNames : Ext(n) = ".html" ]

StackOrder == << "nodejs", "python", "php", "go", "ruby", "static" >>

TechnologyOf(stack) ==
    CASE stack = "nodejs" -> "javascript"
      [] stack = "static" -> "html"
      [] OTHER -> stack

NodeFrameworks(t) ==
    LET p == Path(Root, "package.json")
        deps == IF JsonOk(t, p) THEN UNION {PkgDependency(t[p][i]) : i \in 1..Len(t[p])} ELSE {}
    IN  SelectSeq(<<"express", "react", "vue", "angular", "nextjs">>, LAMBDA f : f \in deps)

PythonFrameworks(t) ==
    LET p == Path(Root, "requirements.txt")
        found == IF ReadOk(t, p) THEN UNION {ReqFrameworks(t[p][i]) : i \in 1..Len(t[p])} ELSE {}
    IN  SelectSeq(<<"django", "flask", "fastapi", "streamlit">>, LAMBDA f : f \in found)

\* a variant in which a later match replaces the primary stack
PrimaryOfLastMatch(matched) == IF matched = <<>> THEN "unknown" ELSE matched[Len(matched)]
PrimaryOf(matched) == IF matched = <<>> THEN "unknown" ELSE Head(matched)

DetectProjectType(t) ==
    LET d == Detected(t)
        matched == SelectSeq(StackOrder, LAMBDA s : d[s])
    IN  [ primary |-> PrimaryOf(matched),
          technologies |-> [i \in 1..Len(matched) |-> TechnologyOf(matched[i])],
          frameworks |-> (IF d.nodejs THEN NodeFrameworks(t) ELSE <<>>)
                         \o (IF d.python THEN PythonFrameworks(t) ELSE <<>>) ]

\* _analyze_structure
ImportantNames ==
    { "package.json", "requirements.txt", "setup.py", ".env",
      "app.py", "main.py", "index.js", "server.js", "index.html", "index.php" }

StructurePruned == {d \in Dirs : d # Root /\ (StartsWithDot(d) \/ d = "node_modules")}

Counted(n) == ~StartsWithDot(n) \/ n = ".env"

\* Path(file).suffix.lower()
Suffix(n) ==
    CASE n = ".env.production" -> ".production"
      [] n = "pyproject.toml" -> ".toml"
      [] n = "go.mod" -> ".mod"
      [] n = "go.sum" -> ".sum"
      [] n \in {"DEPLOYMENT_NOTES.md"} -> ".md"
      [] n = "start.sh" -> ".sh"
      [] n = "big.bin" -> ".bin"
      [] n = ".env" -> ""
      [] OTHER -> Ext(n)

AnalyzeStructure(t) ==
    LET files == SelectSeq(Walk(t, StructurePruned), LAMBDA p : Counted(NameOf(p)))
        exts == {Suffix(NameOf(files[i])) : i \in 1..Len(files)} \ {""}
    IN  [ total_files |-> Len(files),
          total_directories |-> Len(SubDirs(t, StructurePruned)),
          file_types |-> [e \in exts |->
                            Cardinality({i \in 1..Len(files) : Suffix(NameOf(files[i])) = e})],
          important_files |-> SelectSeq(files, LAMBDA p : NameOf(p) \in ImportantNames),
          directories |-> SubDirs(t, StructurePruned) ]

\* _analyze_configuration: the walk prunes nothing
IsConfigFile(n) == n \in {".env", ".env.production", "environment.ts"}
IsEnvironmentFile(n) == n \in {".env", ".env.production", "environment.ts"}

\* _detect_database_config
DbOrder == << "mongodb", "postgresql", "mysql", "sqlite", "redis" >>
DbScanned(n) == Ext(n) \in {".json", ".env", ".py", ".js"}

RECURSIVE DetectedDbs(_, _, _)
DetectedDbs(t, files, acc) ==
    IF files = <<>> THEN acc
    ELSE LET c == t[Head(files)]
             found == UNION {DbIndicators(c[i]) : i \in 1..Len(c)}
             new == SelectSeq(DbOrder, LAMBDA d : d \in found /\ ~Contains(acc, d))
         IN  DetectedDbs(t, Tail(files), acc \o new)

DetectDatabaseConfig(t) ==
    LET dbs == DetectedDbs(t, SelectSeq(Walk(t, {}), LAMBDA p : DbScanned(NameOf(p))), <<>>)
    IN  [present |-> dbs # <<>>, detected_databases |-> dbs]

\* _detect_port_config
Lexemes(content) == Flatten([i \in 1..Len(content) |-> PortLex(content[i])])

\* position of the first run of digits after position i on the same line, or 0
RECURSIVE NextDigits(_, _)
NextDigits(lex, i) ==
    IF i > Len(lex) THEN 0
    ELSE IF lex[i].k = "nl" THEN 0
    ELSE IF lex[i].k = "num" THEN i
    ELSE NextDigits(lex, i + 1)

\* re.findall(kw .*? (\d+), content, re.IGNORECASE) from position i on
RECURSIVE FindAllPorts(_, _, _)
FindAllPorts(lex, kw, i) ==
    IF i > Len(lex) THEN <<>>
    ELSE IF lex[i].k # kw THEN FindAllPorts(lex, kw, i + 1)
    ELSE LET j == NextDigits(lex, i + 1)
         IN  IF j = 0 THEN FindAllPorts(lex, kw, i + 1)
             ELSE <<lex[j].v>> \o FindAllPorts(lex, kw, j + 1)

PortPatterns == << "port", "port", "listen", "server" >>
PortMainFiles == << "app.py", "main.py", "server.js", "index.js", "app.js" >>
MinPort == 1000
MaxPort == 65535

\* a variant that accepts every number
AnyPort(port) == port >= 0
ValidPort(port) == MinPort <= port /\ port <= MaxPort

\* the matches of every pattern in one file, those outside the port range dropped
PortsOfFile(content) ==
    LET lex == Lexemes(content)
        all == Flatten([k \in 1..Len(PortPatterns) |-> FindAllPorts(lex, PortPatterns[k], 1)])
    IN  SelectSeq(all, ValidPort)

\* list(set(detected_ports))
Dedup(ports) == SeqOfSet(Range(ports))

DetectPortConfig(t) ==
    LET files == SelectSeq(PortMainFiles, LAMBDA n : RootExists(t, n))
        detected_ports == Flatten([i \in 1..Len(files) |-> PortsOfFile(t[Path(Root, files[i])])])
    IN  IF detected_ports # <<>>
        THEN [present |-> TRUE, detected_ports |-> Dedup(detected_ports)]
        ELSE [present |-> FALSE, detected_ports |-> <<>>]

AnalyzeConfiguration(t) ==
    LET files == Walk(t, {})
    IN  [ config_files |-> SelectSeq(files, LAMBDA p : IsConfigFile(NameOf(p))),
          environment_files |-> SelectSeq(files, LAMBDA p : IsEnvironmentFile(NameOf(p))),
          database_config |-> DetectDatabaseConfig(t),
          port_configuration |-> DetectPortConfig(t) ]

\* a variant that reports the lowest severity under another name
IssueInfo(type, severity, description, files) ==
    [type |-> type, severity |-> IF severity = "low" THEN "info" ELSE severity,
     description |-> description, files |-> files]
\* _identify_potential_issues
Issue(type, severity, description, files) ==
    [type |-> type, severity |-> severity, description |-> description, files |-> files]

HardcodedPatterns ==
    << <<"localhost", "Hardcoded localhost references found">>,
       <<"127.0.0.1", "Hardcoded local IP addresses found">>,
       <<"password", "Potential hardcoded passwords found">>,
       <<"secret", "Potential hardcoded secrets found">> >>

HardcodedScanned(n) == Ext(n) \in {".py", ".js", ".json"}

\* a variant without the break: one issue for every pattern the content contains
HardcodedIssueEvery(t, p) ==
    LET hits == SelectSeq(HardcodedPatterns,
                          LAMBDA h : \E i \in 1..Len(t[p]) : h[1] \in Sensitive(t[p][i]))
    IN  [i \in 1..Len(hits) |-> Issue("hardcoded_config", "medium", hits[i][2], <<p>>)]

\* the issue of one file: the first pattern its lower-cased content contains
HardcodedIssue(t, p) ==
    LET c == t[p]
        found == UNION {Sensitive(c[i]) : i \in 1..Len(c)}
        hits == SelectSeq(HardcodedPatterns, LAMBDA h : h[1] \in found)
    IN  IF hits = <<>> THEN <<>>
        ELSE <<Issue("hardcoded_config", "medium", Head(hits)[2], <<p>>)>>

MaxListed == 5
FirstN(s, n) == SubSeq(s, 1, IF Len(s) < n THEN Len(s) ELSE n)

\* '.env' in f, for a relative path f of important_files
HasDotEnv(p) == NameOf(p) = ".env"

\* prev is self.analysis_result as it is while the report is being built:
\* the result of the previous analyze call ({} on a new analyzer)
IdentifyPotentialIssues(prev, t) ==
    LET primary == prev.project_type.primary
        important == prev.structure.important_files
        names == {NameOf(important[i]) : i \in 1..Len(important)}
        missing ==
            IF primary = "nodejs"
            THEN IF "package.json" \notin names
                 THEN <<Issue("missing_file", "high",
                              "Missing package.json file for Node.js project", <<>>)>>
                 ELSE <<>>
            ELSE IF primary = "python"
            THEN IF names \cap {"requirements.txt", "setup.py"} = {}
                 THEN <<Issue("missing_file", "medium",
                              "Missing requirements.txt or setup.py for Python project", <<>>)>>
                 ELSE <<>>
            ELSE <<>>
        scanned == SelectSeq(Walk(t, {}), LAMBDA p : HardcodedScanned(NameOf(p)))
        hardcoded == Flatten([i \in 1..Len(scanned) |-> HardcodedIssue(t, scanned[i])])
        env_files == SelectSeq(important, HasDotEnv)
        env == IF env_files = <<>>
               THEN <<Issue("missing_env", "low",
                            "No environment configuration files found", <<>>)>>
               ELSE <<>>
        large_files == SelectSeq(Walk(t, {}), LAMBDA p : Contains(t[p], Huge))
        large == IF large_files # <<>>
                 THEN <<Issue("large_files", "medium",
                              "Large files found that may cause deployment issues",
                              FirstN(large_files, MaxListed))>>
                 ELSE <<>>
    IN  missing \o hardcoded \o env \o large

\* self.analysis_result of a new analyzer: every .get() on it gives its default
NoReport ==
    [ empty |-> TRUE,
      project_type |-> [primary |-> "<none>", technologies |-> <<>>, frameworks |-> <<>>],
      structure |-> [total_files |-> 0, total_directories |-> 0, file_types |-> <<>>,
                     important_files |-> <<>>, directories |-> <<>>],
      configuration |-> [config_files |-> <<>>, environment_files |-> <<>>,
                         database_config |-> [present |-> FALSE, detected_databases |-> <<>>],
                         port_configuration |-> [present |-> FALSE, detected_ports |-> <<>>]],
      potential_issues |-> <<>> ]

\* analyze: the report built from the tree, the issues from the previous result
AnalyzeReport(prev, t) ==
    [ empty |-> FALSE,
      project_type |-> DetectProjectType(t),
      structure |-> AnalyzeStructure(t),
      configuration |-> AnalyzeConfiguration(t),
      potential_issues |-> IdentifyPotentialIssues(prev, t) ]

\* a variant that saves a marker file in the project directory
TreeAfterAnalyzeSaving(t) == Write(t, Path(Root, ".env"), <<"ANALYZED=1", NL>>)
\* the tree that analyze leaves behind: every open() of the analyzer is for reading
TreeAfterAnalyze(t) == t

\* analyze returns {} when the path does not exist (lines 24-26); os.listdir of
\* _detect_project_type, which is in no try block, raises NotADirectoryError on a
\* regular file and PermissionError on a directory that cannot be listed
AnalyzeRaises(kind) == kind \in {"file", "unreadable"}

\* ---------------------------------------------------------------- fix engine
\* The state threaded through one apply_fixes call:
\*   t         the tree
\*   ledger    self.fixes_applied
\*   attempted the rule families entered, in order
\*   failed    the paths whose open() for writing raised
\*   raised    an exception is propagating to the handler of apply_fixes
\* `bad` is the set of paths that cannot be opened for writing.
DQ == "\""
SQ == "'"
Quotes == {DQ, SQ}

Append1(st, entry) == [st EXCEPT !.ledger = Append(@, entry)]
Enter(st, rule) == [st EXCEPT !.attempted = Append(@, rule)]

\* with open(p, 'w') as f: f.write(c), inside a try block that catches the failure
\* (`entries` are the ledger entries appended after the write, in the same block)
WriteCaught(st, bad, p, c, entries) ==
    IF p \in bad
    THEN [st EXCEPT !.failed = @ \cup {p}]
    ELSE [st EXCEPT !.t = Write(@, p, c), !.ledger = @ \o entries]

\* the same outside any try block: the exception leaves the rule
WriteUncaught(st, bad, p, c, entries) ==
    IF p \in bad
    THEN [st EXCEPT !.failed = @ \cup {p}, !.raised = TRUE]
    ELSE [st EXCEPT !.t = Write(@, p, c), !.ledger = @ \o entries]

\* ---- _fix_nodejs_main_file
ListenNumAt(c, i) ==
    /\ i + 2 <= Len(c)
    /\ c[i] = ".listen(" /\ IsNum(c[i + 1]) /\ c[i + 2] = ")"

ListenEnvAt(c, i) ==
    /\ i + 4 <= Len(c)
    /\ c[i] = ".listen(" /\ c[i + 1] = "process.env.PORT" /\ c[i + 2] = "||"
    /\ IsNum(c[i + 3]) /\ c[i + 4] = ")"

ListenFixed(n) == <<".listen(", "process.env.PORT", "||", n, ",", DQ, "0.0.0.0", DQ, ")">>

RECURSIVE SubListenNum(_, _)
SubListenNum(c, i) ==
    IF i > Len(c) THEN <<>>
    ELSE IF ListenNumAt(c, i) THEN ListenFixed(c[i + 1]) \o SubListenNum(c, i + 3)
    ELSE <<c[i]>> \o SubListenNum(c, i + 1)

RECURSIVE SubListenEnv(_, _)
SubListenEnv(c, i) ==
    IF i > Len(c) THEN <<>>
    ELSE IF ListenEnvAt(c, i) THEN ListenFixed(c[i + 3]) \o SubListenEnv(c, i + 5)
    ELSE <<c[i]>> \o SubListenEnv(c, i + 1)

\* a variant that rewrites every numeric literal of the file
FixListenUnscoped(c) == [i \in 1..Len(c) |-> IF IsNum(c[i]) THEN "process.env.PORT" ELSE c[i]]

\* the first pattern that matches is substituted everywhere, the other is not tried
FixListen(c) ==
    IF \E i \in 1..Len(c) : ListenNumAt(c, i) THEN SubListenNum(c, 1)
    ELSE IF \E i \in 1..Len(c) : ListenEnvAt(c, i) THEN SubListenEnv(c, 1)
    ELSE c

NodeListenBlock ==
    << NL, NL, "// Added by deployment fix", NL,
       "const PORT = process.env.PORT || 3000;", NL,
       "app", ".listen(", "PORT", ",", DQ, "0.0.0.0", DQ, ",", "() => {", NL,
       "console.log(Server running on port PORT);", NL, "});", NL >>

NeedsListenBlock(c) == ~Contains(c, ".listen(") /\ Contains(c, "createServer")

FixNodejsMainFile(st, bad, p) ==
    IF ~ReadOk(st.t, p) THEN st
    ELSE LET original_content == st.t[p]
             c1 == FixListen(original_content)
             block == NeedsListenBlock(c1)
             content == IF block THEN c1 \o NodeListenBlock ELSE c1
             st1 == IF block THEN Append1(st, <<"Added proper port binding to Node.js app">>)
                    ELSE st
         IN  IF content # original_content
             THEN WriteCaught(st1, bad, p, content, << <<"Fixed port binding in", NameOf(p)>> >>)
             ELSE st1

\* ---- _fix_nodejs_issues
Compact == "<compact>"
HasScripts(c) == Contains(c, "scripts: {")
HasStart(c) == Contains(c, "start: npm run serve") \/ Contains(c, "start: node")

\* package_data.get("main", "index.js")
MainOf(c) ==
    IF Contains(c, "main: server.js") THEN "server.js"
    ELSE IF Contains(c, "main: lib/index.js") THEN "lib/index.js"
    ELSE "index.js"

StartEntryPoints == << "app.js", "server.js", "main.js", "index.js" >>

StartMainFile(t, c) ==
    LET main_file == MainOf(c)
        found == SelectSeq(StartEntryPoints, LAMBDA e : RootExists(t, e))
    IN  IF RootExists(t, main_file) THEN main_file
        ELSE IF found # <<>> THEN Head(found)
        ELSE main_file

\* the "start" key is added at the end of the scripts object
RECURSIVE InsertStart(_, _, _)
InsertStart(c, i, entry) ==
    IF i > Len(c) THEN <<>>
    ELSE IF c[i] = "}" THEN entry \o SubSeq(c, i, Len(c))
    ELSE <<c[i]>> \o InsertStart(c, i + 1, entry)

\* package_data with the start script set
WithStart(c, main_file) ==
    LET entry == <<"start: node", main_file>>
    IN  IF HasScripts(c) THEN InsertStart(c, 1, entry)
        ELSE c \o <<"scripts: {">> \o entry \o <<"}">>

\* json.dump(json.load(f), indent=2): the document in the layout of json.dump
JsonDump(c) == SelectSeq(c, LAMBDA tok : tok # Compact)

NodeMainFiles == << "app.js", "server.js", "index.js", "main.js" >>

FixPackageJson(st, bad) ==
    LET p == Path(Root, "package.json")
    IN  IF ~Exists(st.t, p) \/ ~JsonOk(st.t, p) THEN st
        ELSE LET c == st.t[p]
                 add == ~HasStart(c)
                 data == IF add THEN WithStart(c, StartMainFile(st.t, c)) ELSE c
                 st1 == IF add THEN Append1(st, <<"Added start script to package.json">>)
                        ELSE st
             IN  WriteCaught(st1, bad, p, JsonDump(data), <<>>)

FixNodejsIssues(st, bad) ==
    LET MainFile(st1) ==
            LET found == SelectSeq(NodeMainFiles, LAMBDA n : RootExists(st1.t, n))
            IN  IF found # <<>> THEN FixNodejsMainFile(st1, bad, Path(Root, Head(found)))
                ELSE st1
    IN  MainFile(FixPackageJson(st, bad))

\* ---- _fix_django_settings
\* content.replace(old, new) for a text that is one token
RECURSIVE ReplaceToken(_, _, _)
ReplaceToken(c, old, new) ==
    IF c = <<>> THEN <<>>
    ELSE (IF Head(c) = old THEN new ELSE <<Head(c)>>) \o ReplaceToken(Tail(c), old, new)

HasImportOsAlways(c) == TRUE
\* 'import os' in content
HasImportOs(c) == Contains(c, "import os")
WithImportOs(c) == <<"import os", NL>> \o c

FixDjangoSettings(st, bad, p) ==
    IF ~ReadOk(st.t, p) THEN st
    ELSE LET original_content == st.t[p]
             hosts == Contains(original_content, "ALLOWED_HOSTS = []")
             c1 == IF hosts
                   THEN ReplaceToken(original_content, "ALLOWED_HOSTS = []",
                                     <<"ALLOWED_HOSTS = [*]", "# Fixed for deployment">>)
                   ELSE original_content
             debug == Contains(c1, "DEBUG = True")
             c2 == IF debug
                   THEN ReplaceToken(c1, "DEBUG = True",
                                     <<"DEBUG = os.environ.get(DEBUG, False).lower() == true">>)
                   ELSE c1
             content == IF debug /\ ~HasImportOs(c2) THEN WithImportOs(c2) ELSE c2
             st1 == IF hosts THEN Append1(st, <<"Fixed Django ALLOWED_HOSTS setting">>) ELSE st
             st2 == IF debug THEN Append1(st1, <<"Fixed Django DEBUG setting for production">>)
                    ELSE st1
         IN  IF content # original_content
             THEN WriteCaught(st2, bad, p, content, <<>>)
             ELSE st2

\* ---- _fix_python_main_file
EnvPort(default) == <<"port", "=", "int(", "os.environ.get(PORT", ",", default, ")", ")">>
HostAny == <<"host", "=", DQ, "0.0.0.0", DQ>>
FlaskRun == <<"app.run(">> \o HostAny \o <<",">> \o EnvPort("5000") \o <<")">>
FlaskRunNoDebug ==
    <<"app.run(">> \o HostAny \o <<",">> \o EnvPort("5000") \o <<",", "debug=False", ")">>
UvicornRun == <<"uvicorn.run(", "app", ",">> \o HostAny \o <<",">> \o EnvPort("8000") \o <<")">>

\* the three run patterns: the length of the match at position i, or 0
RunBareAt(c, i) == IF At(c, i, <<"app.run(", ")">>) THEN 2 ELSE 0
RunDebugAt(c, i) == IF At(c, i, <<"app.run(", "debug=True", ")">>) THEN 3 ELSE 0
RunLocalhostAt(c, i) ==
    IF /\ i + 6 <= Len(c)
       /\ At(c, i, <<"app.run(", "host", "=">>)
       /\ c[i + 3] \in Quotes /\ c[i + 4] = "localhost" /\ c[i + 5] \in Quotes
       /\ c[i + 6] = ")"
    THEN 7 ELSE 0

RunMatchAt(k, c, i) ==
    CASE k = 1 -> RunBareAt(c, i)
      [] k = 2 -> RunDebugAt(c, i)
      [] k = 3 -> RunLocalhostAt(c, i)

RunReplacement(k) == IF k = 2 THEN FlaskRunNoDebug ELSE FlaskRun

RECURSIVE SubRun(_, _, _)
SubRun(k, c, i) ==
    IF i > Len(c) THEN <<>>
    ELSE IF RunMatchAt(k, c, i) > 0
         THEN RunReplacement(k) \o SubRun(k, c, i + RunMatchAt(k, c, i))
         ELSE <<c[i]>> \o SubRun(k, c, i + 1)

\* the first run pattern that matches, or 0
FirstRunPattern(c) ==
    LET ks == {k \in 1..3 : \E i \in 1..Len(c) : RunMatchAt(k, c, i) > 0}
    IN  IF ks = {} THEN 0 ELSE CHOOSE k \in ks : \A j \in ks : k <= j

\* uvicorn\.run\([^)]*\): up to the first closing parenthesis; 0 if there is none
RECURSIVE CloseParen(_, _)
CloseParen(c, i) ==
    IF i > Len(c) THEN 0 ELSE IF c[i] = ")" THEN i ELSE CloseParen(c, i + 1)

UvicornAt(c, i) == c[i] = "uvicorn.run(" /\ CloseParen(c, i + 1) > 0

RECURSIVE SubUvicorn(_, _)
SubUvicorn(c, i) ==
    IF i > Len(c) THEN <<>>
    ELSE IF UvicornAt(c, i) THEN UvicornRun \o SubUvicorn(c, CloseParen(c, i + 1) + 1)
    ELSE <<c[i]>> \o SubUvicorn(c, i + 1)

UsesEnvPort(c) == Contains(c, "os.environ.get(PORT")

MainGuard == "if __name__ == __main__:"
PythonStartupBlock ==
    << NL, NL, "# Added by deployment fix", NL, MainGuard, NL, "import os", NL >>
    \o EnvPort("8000") \o << NL, "print(Starting server on port)", NL >>

NeedsStartupBlock(c) ==
    /\ Contains(c, MainGuard)
    /\ ~Contains(c, "app.run(") /\ ~Contains(c, "uvicorn.run(") /\ ~Contains(c, ".serve_forever()")

\* the framework branch: <<content, ledger entries>> (the django branch is apart)
FrameworkFix(frameworks, c) ==
    IF Contains(frameworks, "flask")
    THEN LET Flask(k) ==
                 LET OsImport(c1) ==
                         LET imp == UsesEnvPort(c1) /\ ~HasImportOs(c1)
                         IN  << IF imp THEN WithImportOs(c1) ELSE c1,
                                (IF k > 0
                                 THEN << <<"Fixed Flask app.run() for deployment">> >>
                                 ELSE <<>>)
                                \o (IF imp
                                    THEN << <<"Added os import for PORT environment variable">> >>
                                    ELSE <<>>) >>
                 IN  OsImport(IF k > 0 THEN SubRun(k, c, 1) ELSE c)
         IN  Flask(FirstRunPattern(c))
    ELSE IF Contains(frameworks, "django") THEN <<c, <<>>>>
    ELSE IF Contains(frameworks, "fastapi")
    THEN LET hit == \E i \in 1..Len(c) : UvicornAt(c, i)
             OsImport(c1) ==
                 << IF UsesEnvPort(c1) /\ ~HasImportOs(c1) THEN WithImportOs(c1) ELSE c1,
                    IF hit THEN << <<"Fixed FastAPI uvicorn configuration">> >> ELSE <<>> >>
         IN  OsImport(IF hit THEN SubUvicorn(c, 1) ELSE c)
    ELSE <<c, <<>>>>

FixPythonMainFile(st, bad, p, analysis) ==
    IF ~ReadOk(st.t, p) THEN st
    ELSE LET original_content == st.t[p]
             frameworks == analysis.project_type.frameworks
             settings == Path(DirOf(p), "settings.py")
             \* the generic part and the write, after the framework branch gave fw
             Generic(st0, fw) ==
                 LET block == NeedsStartupBlock(fw[1])
                     content == IF block THEN fw[1] \o PythonStartupBlock ELSE fw[1]
                     st1 == [st0 EXCEPT
                                !.ledger = @ \o fw[2]
                                    \o (IF block
                                        THEN << <<"Added basic server startup code">> >>
                                        ELSE <<>>)]
                 IN  IF content # original_content
                     THEN WriteCaught(st1, bad, p, content, <<>>)
                     ELSE st1
         IN  Generic(IF /\ ~Contains(frameworks, "flask")
                        /\ Contains(frameworks, "django")
                        /\ Exists(st.t, settings)
                     THEN FixDjangoSettings(st, bad, settings)
                     ELSE st,
                     FrameworkFix(frameworks, original_content))

\* ---- _create_python_run_script
RunScript ==
    << "#!/usr/bin/env python3", NL, "# Basic run script - Added by deployment fix", NL,
       "import os", NL, "def main():", NL, MainGuard, NL, "main()", NL >>

CreatePythonRunScript(st, bad) ==
    WriteUncaught(st, bad, Path(Root, "run.py"), RunScript, << <<"Created Python run script">> >>)

\* ---- _fix_python_issues
PythonMainFiles == << "app.py", "main.py", "server.py", "run.py" >>

RECURSIVE FixPythonFiles(_, _, _, _)
FixPythonFiles(st, bad, names, analysis) ==
    IF names = <<>> THEN st
    ELSE LET p == Path(Root, Head(names))
             st1 == IF Exists(st.t, p) THEN FixPythonMainFile(st, bad, p, analysis) ELSE st
         IN  FixPythonFiles(st1, bad, Tail(names), analysis)

FixPythonIssues(st, bad, analysis) ==
    LET RunScriptIfNeeded(st1) ==
            IF \E i \in 1..Len(PythonMainFiles) : RootExists(st1.t, PythonMainFiles[i])
            THEN st1
            ELSE CreatePythonRunScript(st1, bad)
    IN  RunScriptIfNeeded(FixPythonFiles(st, bad, PythonMainFiles, analysis))

\* ---- _fix_php_issues
Htaccess == << "# Added by deployment fix", NL, "RewriteEngine On", NL >>

FixPhpIssues(st, bad) ==
    LET p == Path(Root, ".htaccess")
    IN  IF ~Exists(st.t, p)
        THEN WriteUncaught(st, bad, p, Htaccess,
                           << <<"Created .htaccess file for PHP application">> >>)
        ELSE st

\* ---- _fix_file_bindings
\* the token ends with the key (host, bind, listen), compared case-insensitively
KeyEnds(tok, key) ==
    CASE key = "host" -> tok \in {"host", "HOST", "localhost", "LOCALHOST"}
      [] key = "bind" -> tok \in {"bind", "BIND"}
      [] key = "listen" -> tok \in {"listen", "LISTEN"}

\* the token starts with the old value, compared case-insensitively
ValueStarts(tok, old) ==
    CASE old = "localhost" -> tok \in {"localhost", "LOCALHOST"}
      [] old = "127.0.0.1" -> tok = "127.0.0.1"

\* position of the value of a match of key [=:] ["']? old ["']? at i, or 0
BindingValueAt(c, i, key, old) ==
    IF ~(i + 2 <= Len(c) /\ KeyEnds(c[i], key) /\ c[i + 1] \in {"=", ":"}) THEN 0
    ELSE IF ValueStarts(c[i + 2], old) THEN i + 2
    ELSE IF i + 3 <= Len(c) /\ c[i + 2] \in Quotes /\ ValueStarts(c[i + 3], old) THEN i + 3
    ELSE 0

\* m.group(0).replace(old_pattern, new_pattern): str.replace compares case-sensitively
ReplaceValue(tok, old) == IF tok = old THEN "0.0.0.0" ELSE tok

\* a variant that replaces the old value wherever it stands
SubBindingAnywhere(c, i, key, old) == [j \in 1..Len(c) |-> IF c[j] = old THEN "0.0.0.0" ELSE c[j]]

RECURSIVE SubBinding(_, _, _, _)
SubBinding(c, i, key, old) ==
    IF i > Len(c) THEN <<>>
    ELSE LET v == BindingValueAt(c, i, key, old)
             end == IF v > 0 /\ v + 1 <= Len(c) /\ c[v + 1] \in Quotes THEN v + 1 ELSE v
         IN  IF v = 0 THEN <<c[i]>> \o SubBinding(c, i + 1, key, old)
             ELSE SubSeq(c, i, v - 1) \o <<ReplaceValue(c[v], old)>> \o SubSeq(c, v + 1, end)
                  \o SubBinding(c, end + 1, key, old)

ProblematicPatterns == << "localhost", "127.0.0.1" >>
HostContexts == << "host", "bind", "listen" >>

RECURSIVE FixBindingsFrom(_, _)
FixBindingsFrom(c, n) ==
    IF n > Len(ProblematicPatterns) * Len(HostContexts) THEN c
    ELSE LET old == ProblematicPatterns[((n - 1) \div Len(HostContexts)) + 1]
             key == HostContexts[((n - 1) % Len(HostContexts)) + 1]
         IN  FixBindingsFrom(SubBinding(c, 1, key, old), n + 1)

FixBindings(c) == FixBindingsFrom(c, 1)

FixFileBindings(st, bad, p) ==
    LET original_content == st.t[p]
        content == FixBindings(original_content)
    IN  IF content # original_content
        THEN WriteCaught(st, bad, p, content, << <<"Fixed host binding in", DirOf(p), NameOf(p)>> >>)
        ELSE st

\* ---- _fix_port_binding
BindingPruned == {"node_modules", ".git"}
BindingScanned(n) == Ext(n) \in {".py", ".js", ".php", ".rb"}

RECURSIVE FixBindingFiles(_, _, _)
FixBindingFiles(st, bad, files) ==
    IF files = <<>> THEN st
    ELSE FixBindingFiles(FixFileBindings(st, bad, Head(files)), bad, Tail(files))

FixPortBinding(st, bad) ==
    FixBindingFiles(st, bad,
                    SelectSeq(Walk(st.t, BindingPruned), LAMBDA p : BindingScanned(NameOf(p))))

\* ---- _fix_environment_config
EnvContent ==
    << "# Environment Configuration - Added by deployment fix", NL,
       "NODE_ENV=production", NL, "DEBUG=false", NL, "PORT=8000", NL, "HOST=0.0.0.0", NL >>

FixEnvironmentConfig(st, bad, analysis) ==
    IF analysis.configuration.environment_files = <<>>
    THEN WriteUncaught(st, bad, Path(Root, ".env"), EnvContent,
                       << <<"Created .env file with deployment configuration">> >>)
    ELSE st

\* ---- _fix_hardcoded_configs
GuideLine(issue) ==
    <<"-", issue.description, "in", DirOf(issue.files[1]), NameOf(issue.files[1]), NL>>

GuideContent(hardcoded_issues) ==
    << "# Deployment Configuration Notes", NL, "## Hardcoded Values Detected", NL >>
    \o Flatten([i \in 1..Len(hardcoded_issues) |-> GuideLine(hardcoded_issues[i])])
    \o << "## Recommended Actions", NL, "## Environment Variables to Set", NL >>

FixHardcodedConfigs(st, bad, analysis) ==
    LET hardcoded_issues ==
            SelectSeq(analysis.potential_issues, LAMBDA issue : issue.type = "hardcoded_config")
    IN  IF hardcoded_issues # <<>>
        THEN WriteUncaught(st, bad, Path(Root, "DEPLOYMENT_NOTES.md"),
                           GuideContent(hardcoded_issues),
                           << <<"Created deployment configuration guide">> >>)
        ELSE st

\* ---- _create_startup_script
NodeStartScript ==
    << "#!/bin/bash", NL, "# Node.js Application Startup Script - Added by deployment fix", NL,
       "npm install", NL, "npm start", NL >>

PythonStartScript(frameworks) ==
    IF Contains(frameworks, "django")
    THEN << "#!/bin/bash", NL, "# Django Application Startup Script - Added by deployment fix",
            NL, "python manage.py runserver 0.0.0.0:8000", NL >>
    ELSE IF Contains(frameworks, "flask")
    THEN << "#!/bin/bash", NL, "# Flask Application Startup Script - Added by deployment fix",
            NL, "python app.py", NL >>
    ELSE << "#!/bin/bash", NL, "# Python Application Startup Script - Added by deployment fix",
            NL, "python main.py", NL >>

CreateStartupScript(st, bad, analysis) ==
    LET project_type == analysis.project_type.primary
        p == Path(Root, "start.sh")
    IN  IF project_type = "nodejs"
        THEN WriteUncaught(st, bad, p, NodeStartScript, << <<"Created Node.js startup script">> >>)
        ELSE IF project_type = "python"
        THEN WriteUncaught(st, bad, p, PythonStartScript(analysis.project_type.frameworks),
                           << <<"Created Python startup script">> >>)
        ELSE st

\* ---- apply_fixes
\* the stack-specific rules selected by the primary stack of the report
\* a variant that does not select by the primary stack
StackRulesNodeAlways(st, bad, analysis) == FixNodejsIssues(Enter(st, "nodejs"), bad)
StackRules(st, bad, analysis) ==
    LET project_type == analysis.project_type.primary
    IN  IF project_type = "nodejs" THEN FixNodejsIssues(Enter(st, "nodejs"), bad)
        ELSE IF project_type = "python" THEN FixPythonIssues(Enter(st, "python"), bad, analysis)
        ELSE IF project_type = "php" THEN FixPhpIssues(Enter(st, "php"), bad)
        ELSE st

\* the statements of the try block in order; a raised exception skips the rest
ApplyFixes(t, ledger, analysis, bad) ==
    LET PortBinding(st) ==
            IF st.raised THEN st ELSE FixPortBinding(Enter(st, "port_binding"), bad)
        EnvironmentConfig(st) ==
            IF st.raised THEN st
            ELSE FixEnvironmentConfig(Enter(st, "environment"), bad, analysis)
        HardcodedConfigs(st) ==
            IF st.raised THEN st
            ELSE FixHardcodedConfigs(Enter(st, "hardcoded"), bad, analysis)
        StartupScript(st) ==
            IF st.raised THEN st
            ELSE CreateStartupScript(Enter(st, "startup"), bad, analysis)
        st0 == [t |-> t, ledger |-> ledger, attempted |-> <<>>, failed |-> {}, raised |-> FALSE]
    IN  StartupScript(HardcodedConfigs(EnvironmentConfig(PortBinding(
            StackRules(st0, bad, analysis)))))

\* the value apply_fixes returns
ApplyFixesReturn(st) == IF st.raised THEN FALSE ELSE Len(st.ledger) > 0

\* ---------------------------------------------------------------- project trees
\* File contents the initial trees are built from.
JsListenNum == << "createServer", NL, "app", ".listen(", "3000", ")", NL >>
JsListenEnv == << "app", ".listen(", "process.env.PORT", "||", "8080", ")", NL >>
JsListenBoth == JsListenNum \o JsListenEnv
JsListenTwice ==
    << "const", "PORT", "=", "3000", NL, "a", ".listen(", "3000", ")", NL,
       "b", ".listen(", "8080", ")", NL >>
JsServerOnly == << "createServer", NL >>
JsLocalhost == << "host", ":", SQ, "localhost", SQ, NL, "app", ".listen(", "80", ")", NL >>
JsUpper ==
    << "HOST", "=", DQ, "LOCALHOST", DQ, NL, "port", "=", "70000", NL,
       "server", NL, "3000", NL, "listen", "3000", "port", "3000", NL >>

\* loopback literals inside and outside an assignment to host, bind or listen
JsHosts ==
    << "HOST", ":", "127.0.0.1", NL, "url", "=", DQ, "localhost", DQ, NL,
       "fetch(", SQ, "127.0.0.1", SQ, ")", NL, "bind", "=", SQ, "localhost", SQ, NL >>

PyRunBare == << "app.run(", ")", NL >>
PyRunDebug == << "import os", NL, "app.run(", "debug=True", ")", NL >>
PyRunBoth == PyRunBare \o << "app.run(", "debug=True", ")", NL >>
PyRunLocal == << "app.run(", "host", "=", DQ, "localhost", DQ, ")", NL >>
PyUvicorn == << "uvicorn.run(", "app", ",", "port", "=", "8000", ")", NL >>
PyGuard == << "def main():", NL, MainGuard, NL, "main()", NL >>
PySecret == << "password", "=", "SECRET_KEY", NL, "bind", "=", "127.0.0.1", NL, "mongoose", NL >>
PySettings == << "ALLOWED_HOSTS = []", NL, "DEBUG = True", NL >>
PySettingsHosts == << "import os", NL, "ALLOWED_HOSTS = []", NL, "DEBUG = False", NL >>
PySettingsSafe == << "ALLOWED_HOSTS = [example.com]", NL, "DEBUG = False", NL >>

PkgBare == << "name: app" >>
PkgExpress ==
    << Compact, "name: app", "main: server.js", "dependencies: {express}",
       "scripts: {", "test: jest", "}" >>
PkgStart == << "name: app", "scripts: {", "start: npm run serve", "}" >>
PkgStartCompact == << Compact >> \o PkgStart
PkgMalformed == << Malformed >>

Plain == << "text", NL >>

File(d, n, c) == [q \in {Path(d, n)} |-> c]
Merge(a, b) == [q \in (DOMAIN a) \cup (DOMAIN b) |-> IF q \in DOMAIN a THEN a[q] ELSE b[q]]

ManifestChoices ==
    {EmptyTree}
    \cup {File(Root, "package.json", c) : c \in {PkgBare, PkgExpress, PkgStart, PkgStartCompact, PkgMalformed}}
    \cup {File(Root, "requirements.txt", c) :
            c \in {<<"flask">>, <<"Django">>, <<"fastapi">>, <<"requests">>, <<Undecodable>>}}
    \cup {File(Root, n, Plain) :
            n \in {"setup.py", "pyproject.toml", "composer.json", "go.mod", "Gemfile"}}

EntryChoices ==
    {EmptyTree}
    \cup {File(Root, "app.js", c) :
            c \in {JsListenNum, JsListenEnv, JsListenBoth, JsListenTwice, JsServerOnly,
                   JsLocalhost, JsUpper, JsHosts}}
    \cup {Merge(File(Root, "index.js", JsServerOnly), File(Root, "server.js", JsListenNum))}
    \cup {File(Root, "app.py", c) :
            c \in {PyRunBare, PyRunDebug, PyRunBoth, PyRunLocal, PyUvicorn, PyGuard, PySecret}}
    \cup {Merge(File(Root, "main.py", PyGuard), File(Root, "settings.py", c)) :
            c \in {PySettings, PySettingsHosts, PySettingsSafe}}
    \cup {File(Root, n, Plain) : n \in {"index.php", "index.html"}}

ExtraChoices ==
    {EmptyTree}
    \cup {File(Root, ".env", <<"PORT=8000", NL>>),
          File(Root, ".env.production", <<"PORT=8000", NL>>),
          File("src", ".env", <<"PORT=8000", NL>>),
          File("node_modules", "index.js", JsLocalhost),
          File(Root, "big.bin", <<Huge>>),
          File(Root, "start.sh", Plain),
          File(Root, "DEPLOYMENT_NOTES.md", Plain)}

\* the trees the analyzer is run on
InitialTrees ==
    {Merge(Merge(m, e), x) : m \in ManifestChoices, e \in EntryChoices, x \in ExtraChoices}

\* the trees the whole pipeline is run on: those built from at most two choices,
\* with a manifest of a stack that has fix rules
FixManifests ==
    {m \in ManifestChoices :
        DOMAIN m \subseteq {Path(Root, "package.json"), Path(Root, "requirements.txt"),
                            Path(Root, "composer.json")}}

FixTrees ==
    {Merge(m, e) : m \in FixManifests, e \in EntryChoices}
    \cup {Merge(m, x) : m \in FixManifests, x \in ExtraChoices}
    \cup {Merge(e, x) : e \in EntryChoices, x \in ExtraChoices}

\* the paths whose open() for writing may fail in a call of apply_fixes
BadChoices ==
    {{}} \cup {{Path(Root, n)} : n \in {"app.js", ".htaccess", ".env"}}

\* ---------------------------------------------------------------- the system
Last(op, before, base, st, streak) ==
    [ op |-> op, before |-> before, base |-> base, attempted |-> st.attempted,
      failed |-> st.failed, raised |-> st.raised, streak |-> streak ]

NoCall == [attempted |-> <<>>, failed |-> {}, raised |-> FALSE]

NoRequest == [kind |-> "none"]

InitWith(trees, roots) ==
    /\ tree \in trees
    /\ root \in roots
    /\ exc = FALSE
    /\ request = NoRequest
    /\ response = NoRequest
    /\ nConfig = 0
    /\ stages = <<>>
    /\ analysis_result = NoReport
    /\ report = NoReport
    /\ fixes_applied = <<>>
    /\ ret = FALSE
    /\ last = Last("init", tree, 0, NoCall, 0)
    /\ nAnalyze = 0
    /\ nApply = 0
    /\ nEdit = 0

Init == InitWith(FixTrees, {"dir"})
\* a path that is no directory that can be listed has no files
InitAnalyzer ==
    \/ InitWith(InitialTrees, {"dir"})
    \/ InitWith({EmptyTree}, RootKinds \ {"dir"})

\* analyzer.analyze(project_dir) on an existing directory
Analyze ==
    /\ nAnalyze < MaxAnalyze
    /\ nAnalyze' = nAnalyze + 1
    /\ exc' = AnalyzeRaises(root)
    /\ analysis_result' = IF root = "dir" THEN AnalyzeReport(analysis_result, tree)
                          ELSE analysis_result
    /\ report' = IF root = "dir" THEN analysis_result'
                 ELSE IF root = "missing" THEN NoReport
                 ELSE report
    /\ tree' = TreeAfterAnalyze(tree)
    /\ last' = Last("analyze", tree, Len(fixes_applied), NoCall, 0)
    /\ UNCHANGED <<fixes_applied, ret, nApply, nEdit, root, configVars, stages>>

\* fix_engine.apply_fixes(project_dir, report) with the report the caller holds
Apply(bad) ==
    /\ nApply < MaxApply
    /\ ~report.empty
    /\ nApply' = nApply + 1
    /\ \E st \in {ApplyFixes(tree, fixes_applied, report, bad)} :
           /\ tree' = st.t
           /\ fixes_applied' = st.ledger
           /\ ret' = ApplyFixesReturn(st)
           /\ last' = Last("apply", tree, Len(fixes_applied), st,
                           IF st.failed = {} THEN last.streak + 1 ELSE 0)
    /\ exc' = FALSE
    /\ UNCHANGED <<analysis_result, report, nAnalyze, nEdit, root, configVars, stages>>

\* the environment removes a file of the tree between two calls
Delete(p) ==
    /\ nEdit < MaxEdit
    /\ nEdit' = nEdit + 1
    /\ tree' = Remove(tree, p)
    /\ last' = Last("edit", tree, Len(fixes_applied), NoCall, 0)
    /\ UNCHANGED <<analysis_result, report, fixes_applied, ret, nAnalyze, nApply,
                   root, exc, configVars, stages>>

\* the pipeline: analyses and fix runs on one tree
Next ==
    \/ Analyze
    \/ \E bad \in BadChoices : Apply(bad)

Spec == Init /\ [][Next]_vars

\* the analyzer alone, on a tree that changes between the calls
NextAnalyzer ==
    \/ Analyze
    \/ \E p \in DOMAIN tree : Delete(p)

SpecAnalyzer == InitAnalyzer /\ [][NextAnalyzer]_vars

\* ---------------------------------------------------------------- configuration manager
\* The configuration directory ./bilman is a tree as well.  A structured
\* document is a sequence of members <<key, value>>, a value being the
\* sequence of the characters of its text; a file that is no JSON or YAML
\* mapping holds a member whose key is Malformed or NotObject, a file of
\* no characters the member EmptyFile; <<>> is the text of the empty mapping.
NotObject == "<list or scalar>"
EmptyFile == << << "<no characters>", <<>> >> >>
CfgJson == Path(Root, "config.json")
CfgYaml == Path(Root, "config.yaml")
supported_config_files ==
    {"config.json", "config.yaml", "config.yml", "config.ini", ".env", "settings.py", "app.config"}

KeysOf(d) == {d[i][1] : i \in 1..Len(d)}
\* d[k] of the mapping read from d: the last member named k
ValueOf(d, k) == d[CHOOSE i \in 1..Len(d) : d[i][1] = k /\ \A j \in (i + 1)..Len(d) : d[j][1] # k][2]

\* d[m.key] = m.value on a python dict: a known key keeps its place
Put(d, m) ==
    IF m[1] \in KeysOf(d)
    THEN [i \in 1..Len(d) |-> IF d[i][1] = m[1] THEN m ELSE d[i]]
    ELSE Append(d, m)

\* the dict built from the members of c read in order
RECURSIVE DictOf(_)
DictOf(c) == IF c = <<>> THEN <<>> ELSE Put(DictOf(SubSeq(c, 1, Len(c) - 1)), c[Len(c)])

\* json.load: an empty file and a malformed one raise
JsonLoad(c) ==
    IF c = EmptyFile \/ Malformed \in KeysOf(c)
    THEN [ok |-> FALSE, doc |-> <<>>]
    ELSE [ok |-> TRUE, doc |-> IF NotObject \in KeysOf(c) THEN c ELSE DictOf(c)]

\* yaml.safe_load(f) or {}: an empty file reads as the empty mapping
YamlLoad(c) ==
    IF Malformed \in KeysOf(c)
    THEN [ok |-> FALSE, doc |-> <<>>]
    ELSE [ok |-> TRUE, doc |-> IF NotObject \in KeysOf(c) THEN c
                               ELSE IF c = EmptyFile THEN <<>> ELSE DictOf(c)]

MergeOldWins(existing_config, config_data) ==
    LET KeepOld(d) == SelectSeq(d, LAMBDA m : m[1] \notin KeysOf(existing_config))
    IN  DictOf(existing_config \o KeepOld(config_data))
\* {**existing_config, **config_data}
merged_config(existing_config, config_data) == DictOf(existing_config \o config_data)

\* yaml.dump sorts the keys of a mapping
SortedKeys ==
    << "a", "b", "c", "configured_by", "deployment_timestamp", "domain", "password", "username" >>
YamlDump(d) ==
    LET ks == SelectSeq(SortedKeys, LAMBDA k : k \in KeysOf(d))
    IN  [i \in 1..Len(ks) |-> << ks[i], ValueOf(d, ks[i]) >>]

\* the file can be opened for writing: its directory exists
CanWrite(kind) == kind = "dir"

\* _update_json_config and _update_yaml_config: read if present, merge, write
\* back; any exception leaves the file as it was and gives False
UpdateStructured(t, kind, p, loaded, text) ==
    IF /\ loaded.ok
       /\ NotObject \notin KeysOf(loaded.doc)
       /\ CanWrite(kind)
    THEN [t |-> Write(t, p, text), ok |-> TRUE]
    ELSE [t |-> t, ok |-> FALSE]

\* json.dump writes the members of the dict in their order (layout is not modelled)
JsonText(d) == d
UpdateJsonConfig(t, kind, p, config_data) ==
    LET Updated(loaded) ==
            UpdateStructured(t, kind, p, loaded, JsonText(merged_config(loaded.doc, config_data)))
    IN  Updated(IF Exists(t, p) THEN JsonLoad(t[p]) ELSE [ok |-> TRUE, doc |-> <<>>])
UpdateYamlConfig(t, kind, p, config_data) ==
    LET Updated(loaded) ==
            UpdateStructured(t, kind, p, loaded, YamlDump(merged_config(loaded.doc, config_data)))
    IN  Updated(IF Exists(t, p) THEN YamlLoad(t[p]) ELSE [ok |-> TRUE, doc |-> <<>>])

\* _update_config_file: the configuration trees of the model hold JSON and
\* YAML documents only
UpdateConfigFile(t, kind, p, config_data) ==
    IF NameOf(p) = "config.json"
    THEN UpdateJsonConfig(t, kind, p, config_data)
    ELSE UpdateYamlConfig(t, kind, p, config_data)

FindConfigFiles(t) == {p \in DOMAIN t : NameOf(p) \in supported_config_files}

\* key.upper() behind BILMAN_
EnvKey(k) ==
    CASE k = "domain" -> "BILMAN_DOMAIN"
      [] k = "username" -> "BILMAN_USERNAME"
      [] k = "password" -> "BILMAN_PASSWORD"
      [] k = "deployment_timestamp" -> "BILMAN_DEPLOYMENT_TIMESTAMP"
      [] k = "configured_by" -> "BILMAN_CONFIGURED_BY"
      [] k = "a" -> "BILMAN_A"
      [] k = "b" -> "BILMAN_B"
      [] k = "c" -> "BILMAN_C"

CreateConfigFile(t, kind, config_data) ==
    IF CanWrite(kind) THEN Write(t, Path(Root, "bilman_config.json"), config_data) ELSE t

CreateEnvFile(t, kind, config_data) ==
    IF CanWrite(kind)
    THEN Write(t, Path(Root, ".bilman.env"),
               << << "# Bilman Runtime Configuration", <<>> >> >>
                   \o [i \in 1..Len(config_data) |-> << EnvKey(config_data[i][1]), config_data[i][2] >>])
    ELSE t

\* setup_config: every configuration file found is updated, or
\* bilman_config.json is created; .bilman.env is always written.  The
\* helpers catch their own exceptions, so the result is True.
SetupConfig(t, kind, config_data) ==
    LET found == FindConfigFiles(t)
        Updated(u) == [q \in DOMAIN u |->
                          IF q \in found THEN UpdateConfigFile(u, kind, q, config_data).t[q] ELSE u[q]]
    IN  [t |-> CreateEnvFile(IF found # {} THEN Updated(t) ELSE CreateConfigFile(t, kind, config_data),
                             kind, config_data),
         ok |-> TRUE]

\* ---------------------------------------------------------------- configuration form
Letters == {"a", "b", "c", "o", "t"}
Digits == {"1", "2", "7"}
Alnum == Letters \cup Digits
Space == " "

\* str.strip()
RECURSIVE Strip(_)
Strip(s) ==
    IF s = <<>> THEN s
    ELSE IF Head(s) = Space THEN Strip(Tail(s))
    ELSE IF s[Len(s)] = Space THEN Strip(SubSeq(s, 1, Len(s) - 1))
    ELSE s

\* ^[a-zA-Z0-9][a-zA-Z0-9-]{1,61}[a-zA-Z0-9]\.[a-zA-Z]{2,}$
ValidateDomain(domain) ==
    \E k \in 1..Len(domain) :
        /\ domain[k] = "."
        /\ k - 1 >= 3 /\ k - 1 <= 63
        /\ domain[1] \in Alnum
        /\ \A i \in 2..(k - 2) : domain[i] \in Alnum \cup {"-"}
        /\ domain[k - 1] \in Alnum
        /\ Len(domain) - k >= 2
        /\ \A i \in (k + 1)..Len(domain) : domain[i] \in Letters

\* ^[a-zA-Z0-9_]{3,20}$
ValidateUsername(username) ==
    /\ Len(username) >= 3 /\ Len(username) <= 20
    /\ \A i \in 1..Len(username) : username[i] \in Alnum \cup {"_"}

MinPassword == 8

\* the dict save_config hands to setup_config
ConfigData(domain, username, salt, now) ==
    << << "domain", domain >>, << "username", username >>,
       << "password", << "pbkdf2:", salt >> >>,
       << "deployment_timestamp", << now >> >>,
       << "configured_by", << "web_interface" >> >> >>

Error(message, t) == [success |-> FALSE, error |-> message, before |-> t]

\* save_config: the checks in the order of the code, then setup_config
SaveConfigResult(t, kind, data, salt, now) ==
    LET Saved(r) == [t |-> r.t,
                     response |-> IF r.ok
                                  THEN [success |-> TRUE, error |-> "", before |-> t]
                                  ELSE Error("Failed to save configuration", t)]
        Rejected(message) == [t |-> t, response |-> Error(message, t)]
    IN  IF data.domain = <<>> THEN Rejected("Missing required field: domain")
        ELSE IF data.username = <<>> THEN Rejected("Missing required field: username")
        ELSE IF data.password = <<>> THEN Rejected("Missing required field: password")
        ELSE IF ~ValidateDomain(Strip(data.domain)) THEN Rejected("Invalid domain format")
        ELSE IF ~ValidateUsername(Strip(data.username)) THEN Rejected("Invalid username format")
        ELSE IF Len(data.password) < MinPassword
             THEN Rejected("Password must be at least 8 characters long")
        ELSE Saved(SetupConfig(t, kind, ConfigData(Strip(data.domain), Strip(data.username), salt, now)))

\* ---- inputs of the configuration calls
One == << "1" >>
Two == << "2" >>
MemberA1 == << "a", One >>
MemberA2 == << "a", Two >>
MemberB1 == << "b", One >>
MemberB2 == << "b", Two >>
MemberC2 == << "c", Two >>
ExistingDocs ==
    { << MemberA1 >>, << MemberA1, MemberB1 >>, << MemberB1, MemberA1 >>, << MemberA1, MemberA2 >>,
      <<>>, EmptyFile, << << Malformed, <<>> >> >>, << << NotObject, <<>> >> >> }
NewData == { << MemberB2 >>, << MemberB2, MemberC2 >>, << MemberC2, MemberA2 >>, <<>> }

ConfigTrees ==
    {EmptyTree}
    \cup {[q \in {p} |-> c] : p \in {CfgJson, CfgYaml}, c \in ExistingDocs}
    \cup {[q \in {CfgJson, CfgYaml} |-> IF q = CfgJson THEN << MemberA1 >> ELSE << MemberB1, MemberA1 >>]}

Domains ==
    { << "a", "b", "c", ".", "c", "o" >>,           \* abc.co
      << "a", "b", ".", "c", "o" >>,                \* ab.co
      << "t", ".", "c", "o" >>,                     \* t.co
      << "a", "-", "c", ".", "c", "o" >>,           \* a-c.co
      << "-", "b", "c", ".", "c", "o" >>,           \* -bc.co
      << "a", "b", "c", ".", "c" >>,                \* abc.c
      << "a", "b", "c", "c", "o" >>,                \* abcco
      << Space, "a", "b", "c", ".", "c", "o", Space >>,
      <<>> }
Usernames ==
    { << "b", "o", "b" >>, << "b", "o" >>, << "b", "_", "7" >>, << "b", "-", "b" >>,
      << Space, "b", "o", "b" >>, [i \in 1..21 |-> "a"], [i \in 1..20 |-> "a"], <<>> }
Passwords == { [i \in 1..8 |-> "a"], [i \in 1..7 |-> "a"], <<>> }
\* the forms posted: a valid form with one field varied at a time
ValidForm == [domain |-> << "a", "b", "c", ".", "c", "o" >>, username |-> << "b", "o", "b" >>,
              password |-> [i \in 1..8 |-> "a"]]
Forms ==
    {[ValidForm EXCEPT !.domain = d] : d \in Domains}
    \cup {[ValidForm EXCEPT !.username = u] : u \in Usernames}
    \cup {[ValidForm EXCEPT !.password = w] : w \in Passwords}
\* the salt generate_password_hash draws and the time datetime.now() reads
Moments == {[salt |-> "s1", now |-> "t1"], [salt |-> "s2", now |-> "t2"]}

unchangedByConfig ==
    <<analysis_result, report, fixes_applied, ret, last, nAnalyze, nApply, nEdit, root, exc, stages>>

\* a call of ConfigManager._update_json_config or _update_yaml_config
UpdateConfig(kind, p, config_data) ==
    /\ nConfig < MaxConfig
    /\ nConfig' = nConfig + 1
    /\ \E r \in {IF kind = "update_json"
                 THEN UpdateJsonConfig(tree, root, p, config_data)
                 ELSE UpdateYamlConfig(tree, root, p, config_data)} :
          /\ tree' = r.t
          /\ response' = [success |-> r.ok, error |-> "", before |-> tree]
    /\ request' = [kind |-> kind, path |-> p, data |-> config_data]
    /\ UNCHANGED unchangedByConfig

\* POST /api/config
SaveConfig(data, salt, now) ==
    /\ nConfig < MaxConfig
    /\ nConfig' = nConfig + 1
    /\ \E r \in {SaveConfigResult(tree, root, data, salt, now)} :
          /\ tree' = r.t
          /\ response' = r.response
    /\ request' = [kind |-> "save", path |-> Path(Root, ""), data |-> data]
    /\ UNCHANGED unchangedByConfig

InitConfig ==
    \/ InitWith(ConfigTrees, {"dir"})
    \/ InitWith({EmptyTree}, {"missing"})

NextConfig ==
    \/ \E config_data \in NewData : UpdateConfig("update_json", CfgJson, config_data)
    \/ \E config_data \in NewData : UpdateConfig("update_yaml", CfgYaml, config_data)
    \/ \E data \in Forms, m \in Moments : SaveConfig(data, m.salt, m.now)

SpecConfig == InitConfig /\ [][NextConfig]_vars

\* ---------------------------------------------------------------- orchestrator
\* main() of src/deploy.py, one action per stage.  An entry of `stages` names
\* the stage, says whether it succeeded, and whether main goes on to the next.
Stage(name, ok, go) == [stage |-> name, ok |-> ok, go |-> go]

\* "if not deployer.clone_repository(): return False"
AfterClone(cloned) == cloned
AfterAnalysisAlways(analysis) == TRUE
\* "if not analysis: return False"
AfterAnalysis(analysis) == ~analysis.empty
\* fix_issues returns True on both branches
FixIssuesReturn(applied) == TRUE
\* "if not deployer.fix_issues(analysis):" selects the line printed, nothing else
AfterFix(fixed) == TRUE

\* the repositories git clone may deliver
CloneTrees == {Merge(m, e) : m \in FixManifests, e \in EntryChoices}
CloneOutcomes == {"cloned", "failed", "rmtree raises"}
AnalysisOutcomes == {"analyzed", "directory gone", "report not written"}

unchangedByMain == <<nAnalyze, nApply, nEdit, configVars>>

\* clone_repository: an old checkout is removed (shutil.rmtree, in no try
\* block), then git clone runs through run_command
CloneRepository(outcome, cloned) ==
    /\ stages = <<>>
    /\ outcome = "rmtree raises" => root # "missing"
    /\ exc' = (outcome = "rmtree raises")
    /\ tree' = IF outcome = "cloned" THEN cloned
               ELSE IF outcome = "failed" THEN EmptyTree ELSE tree
    /\ root' = IF outcome = "cloned" THEN "dir"
               ELSE IF outcome = "failed" THEN "missing" ELSE root
    /\ stages' = << Stage("clone", outcome = "cloned",
                          ~exc' /\ AfterClone(outcome = "cloned")) >>
    /\ UNCHANGED <<analysis_result, report, fixes_applied, ret, last, unchangedByMain>>

\* analyze_project: {} when the directory is not there; the report of the
\* analyzer is written to analysis_report.json (in no try block) and returned
AnalyzeProject(outcome) ==
    /\ Len(stages) = 1 /\ stages[1].go
    /\ root' = IF outcome = "directory gone" THEN "missing" ELSE root
    /\ tree' = IF outcome = "directory gone" THEN EmptyTree ELSE TreeAfterAnalyze(tree)
    /\ analysis_result' = IF root' = "dir" THEN AnalyzeReport(analysis_result, tree)
                          ELSE analysis_result
    /\ exc' = (root' = "dir" /\ outcome = "report not written")
    /\ report' = IF root' = "dir" /\ ~exc' THEN analysis_result' ELSE NoReport
    /\ stages' = Append(stages, Stage("analysis", ~report'.empty,
                                      ~exc' /\ AfterAnalysis(report')))
    /\ last' = Last("analyze", tree, Len(fixes_applied), NoCall, 0)
    /\ UNCHANGED <<fixes_applied, ret, unchangedByMain>>

\* fix_issues: apply_fixes, and a commit of the fixes when it returned True;
\* neither can raise
FixIssues(bad) ==
    /\ Len(stages) = 2 /\ stages[2].go
    /\ \E st \in {ApplyFixes(tree, fixes_applied, report, bad)} :
           /\ tree' = st.t
           /\ fixes_applied' = st.ledger
           /\ ret' = ApplyFixesReturn(st)
           /\ last' = Last("apply", tree, Len(fixes_applied), st, 0)
    /\ exc' = FALSE
    /\ stages' = Append(stages, Stage("fix", ret', AfterFix(FixIssuesReturn(ret'))))
    /\ UNCHANGED <<analysis_result, report, root, unchangedByMain>>

\* deploy_project: the commands it runs decide the result
DeployProject(deployed) ==
    /\ Len(stages) = 3 /\ stages[3].go
    /\ exc' = FALSE
    /\ stages' = Append(stages, Stage("deploy", deployed, deployed))
    /\ UNCHANGED <<tree, analysis_result, report, fixes_applied, ret, last, root, unchangedByMain>>

InitDeploy ==
    \/ InitWith({EmptyTree}, {"missing"})
    \/ InitWith(ExtraChoices, {"dir"})

NextDeploy ==
    \/ \E outcome \in CloneOutcomes, cloned \in CloneTrees : CloneRepository(outcome, cloned)
    \/ \E outcome \in AnalysisOutcomes : AnalyzeProject(outcome)
    \/ \E bad \in BadChoices : FixIssues(bad)
    \/ \E deployed \in BOOLEAN : DeployProject(deployed)

SpecDeploy == InitDeploy /\ [][NextDeploy]_vars

\* ---------------------------------------------------------------- properties
\* the last call was analyze, on a directory: it returned a report
Analyzed == last.op = "analyze" /\ root = "dir"
Applied == last.op = "apply"
\* the entries the last apply_fixes call appended to the ledger
Added == SubSeq(fixes_applied, last.base + 1, Len(fixes_applied))
\* the last call is the second (or a later) of consecutive fix runs on the same tree
\* with the same report, no write having failed
SecondRun == Applied /\ last.streak >= 2

IssueTypes == {report.potential_issues[i].type : i \in 1..Len(report.potential_issues)}
HasIssue(type, severity) ==
    \E i \in 1..Len(report.potential_issues) :
        /\ report.potential_issues[i].type = type
        /\ report.potential_issues[i].severity = severity

\* the manifest (or loose-file indicator) of a stack is present in the root
IndicatorInRoot(stack) ==
    CASE stack = "nodejs" -> RootExists(tree, "package.json")
      [] stack = "python" -> \/ RootExists(tree, "requirements.txt")
                             \/ RootExists(tree, "setup.py")
                             \/ RootExists(tree, "pyproject.toml")
      [] stack = "php" -> \/ RootExists(tree, "composer.json")
                          \/ \E n \in Names : RootExists(tree, n) /\ Ext(n) = ".php"
      [] stack = "go" -> RootExists(tree, "go.mod") \/ RootExists(tree, "go.sum")
      [] stack = "ruby" -> RootExists(tree, "Gemfile")
      [] stack = "static" -> \E n \in Names : RootExists(tree, n) /\ Ext(n) = ".html"

Stacks == {"nodejs", "python", "php", "go", "ruby", "static"}

\* C1: the second of two consecutive apply_fixes calls on the same tree with the same
\* report adds no entry to the ledger.
C1_SecondRunAddsNothing == SecondRun => Added = <<>>

\* C2: after the second of two consecutive apply_fixes calls every file has the content
\* the first call left (and no file appeared or disappeared).
C2_SecondRunKeepsContent == SecondRun => tree = last.before

\* C3: the report analyze returns is the one a new analyzer returns for the same tree.
C3_ReportDependsOnTreeOnly == Analyzed => report = AnalyzeReport(NoReport, tree)

\* C4: after analyze returns, the tree is the tree it was called on.
C4_AnalyzeKeepsTree == Analyzed => tree = last.before
C4_Witness == Analyzed /\ nAnalyze = 2 /\ Cardinality(DOMAIN tree) >= 2

\* C5: primary is the first stack of the order nodejs, python, php, go, ruby, static whose
\* indicator is in the root; the technologies are those of all matched stacks, in that order.
C5_PrimaryIsFirstMatch ==
    Analyzed =>
        LET pt == report.project_type
            first == IF IndicatorInRoot("nodejs") THEN "nodejs"
                     ELSE IF IndicatorInRoot("python") THEN "python"
                     ELSE IF IndicatorInRoot("php") THEN "php"
                     ELSE IF IndicatorInRoot("go") THEN "go"
                     ELSE IF IndicatorInRoot("ruby") THEN "ruby"
                     ELSE IF IndicatorInRoot("static") THEN "static"
                     ELSE "unknown"
            techs == SelectSeq(<<"javascript", "python", "php", "go", "ruby", "html">>,
                               LAMBDA x : \E s \in Stacks :
                                            IndicatorInRoot(s) /\ TechnologyOf(s) = x)
        IN  pt.primary = first /\ pt.technologies = techs
C5_Witness ==
    /\ Analyzed
    /\ report.project_type.primary = "python"
    /\ Len(report.project_type.technologies) >= 2

\* C6: primary is unknown exactly when no indicator of any stack is in the root, and
\* exactly when technologies is empty.
C6_UnknownIffNoManifest ==
    Analyzed =>
        /\ (report.project_type.primary = "unknown") <=> (\A s \in Stacks : ~IndicatorInRoot(s))
        /\ (report.project_type.primary = "unknown") <=> (report.project_type.technologies = <<>>)
C6_Witness ==
    /\ Analyzed
    /\ report.project_type.primary = "unknown"
    /\ report.structure.total_files >= 2

\* C7: every port hint is in 1000..65535, no hint occurs twice, and the hints are absent
\* (not an empty list) when no port was kept.
C7_PortHintsValid ==
    Analyzed =>
        LET pc == report.configuration.port_configuration
            ports == pc.detected_ports
        IN  /\ \A i \in 1..Len(ports) : 1000 <= ports[i] /\ ports[i] <= 65535
            /\ \A i, j \in 1..Len(ports) : i # j => ports[i] # ports[j]
            /\ pc.present <=> ports # <<>>
C7_Witness ==
    /\ Analyzed
    /\ Len(report.configuration.port_configuration.detected_ports) >= 2

C9_EmptyTreeReport ==
    (Analyzed /\ tree = EmptyTree) =>
        /\ report.structure.total_files = 0
        /\ report.project_type.primary = "unknown"
        /\ HasIssue("missing_env", "low")

\* C10: when a write fails during apply_fixes, the four generic rules are still all
\* entered, in their order, after it.
GenericRules == << "port_binding", "environment", "hardcoded", "startup" >>
C10_FailureDoesNotAbort ==
    (Applied /\ last.failed # {}) =>
        /\ Len(last.attempted) >= Len(GenericRules)
        /\ SubSeq(last.attempted, Len(last.attempted) - Len(GenericRules) + 1,
                  Len(last.attempted)) = GenericRules

\* C11: no call of analyze or apply_fixes leaves its entry point with an exception,
\* whatever the path of the project directory is.
C11_EntryPointsNeverRaise == (last.op \in {"analyze", "apply"}) => ~exc

\* C12: apply_fixes returns success exactly when the call added an entry to the ledger.
C12_SuccessIffFixesApplied == Applied => (ret <=> Added # <<>>)

\* C19: the ledger after an apply_fixes call holds the entries of that call only.
C19_LedgerOfOneCall == Applied => fixes_applied = Added

\* C20: the report has the low-severity missing_env issue exactly when the tree the
\* call scanned has no environment file.
EnvironmentFiles(t) == {q \in DOMAIN t : IsEnvironmentFile(NameOf(q))}
C20_MissingEnvIffNoEnvFile ==
    Analyzed => (HasIssue("missing_env", "low") <=> EnvironmentFiles(tree) = {})

\* the entry file the listen rule of a nodejs tree works on, <<>> if there is none
ListenEntry(t) ==
    LET found == SelectSeq(<<"app.js", "server.js", "index.js", "main.js">>,
                           LAMBDA n : RootExists(t, n))
    IN  IF found = <<>> THEN <<>> ELSE Path(Root, Head(found))
\* the positions of the bare-numeric listen calls .listen(N) of a content
ListenSites(c) ==
    {i \in 1..Len(c) : i + 2 <= Len(c) /\ c[i] = ".listen(" /\ IsNum(c[i + 1]) /\ c[i + 2] = ")"}
\* the fix run just made rewrote the bare-numeric listen calls of the entry file
ListenRewritten ==
    /\ Applied /\ last.failed = {}
    /\ report.project_type.primary = "nodejs"
    /\ ListenEntry(last.before) # <<>>
    /\ ReadOk(last.before, ListenEntry(last.before))
    /\ ListenSites(last.before[ListenEntry(last.before)]) # {}

\* C13: after apply_fixes every bare-numeric listen call .listen(N) of the entry file
\* reads .listen(process.env.PORT || N, "0.0.0.0"), and every token outside these calls
\* is the token it was (numeric literals included), but for a host value that the host
\* rebinding rule set to 0.0.0.0.
C13_ListenRewriteIsScoped ==
    ListenRewritten =>
        LET c == last.before[ListenEntry(last.before)]
            d == tree[ListenEntry(last.before)]
            sites == ListenSites(c)
            Shift(j) == 6 * Cardinality({i \in sites : i < j})
        IN  /\ Len(d) = Len(c) + 6 * Cardinality(sites)
            /\ \A i \in sites :
                   SubSeq(d, i + Shift(i), i + Shift(i) + 8) =
                       << ".listen(", "process.env.PORT", "||", c[i + 1], ",",
                          "\"", "0.0.0.0", "\"", ")" >>
            /\ \A j \in 1..Len(c) :
                   (\A i \in sites : j \notin i..(i + 2)) =>
                       \/ d[j + Shift(j)] = c[j]
                       \/ c[j] \in {"localhost", "127.0.0.1"} /\ d[j + Shift(j)] = "0.0.0.0"
C13_Witness ==
    /\ ListenRewritten
    /\ Cardinality(ListenSites(last.before[ListenEntry(last.before)])) >= 2
    /\ \E j \in 2..Len(tree[ListenEntry(last.before)]) :
           tree[ListenEntry(last.before)][j] = "3000"
           /\ tree[ListenEntry(last.before)][j - 1] = "="

Manifest == Path(Root, "package.json")
\* the fix run just made worked on the package manifest of a nodejs tree
ManifestFixed ==
    /\ Applied /\ last.failed = {}
    /\ report.project_type.primary = "nodejs"
    /\ JsonOk(last.before, Manifest)
\* the first existing file of the priority list of the start-script rule, <<>> if none
FirstCandidate(t) ==
    SelectSeq(<<"app.js", "server.js", "main.js", "index.js">>, LAMBDA n : RootExists(t, n))

\* C14: a manifest without start command gets the start command "node <first existing
\* candidate of the priority list>"; a manifest with a start command is left as it is
\* and no ledger entry is added for it.
C14_StartScriptRule ==
    ManifestFixed =>
        IF "start: npm run serve" \in Range(last.before[Manifest])
        THEN /\ tree[Manifest] = last.before[Manifest]
             /\ <<"Added start script to package.json">> \notin Range(Added)
        ELSE FirstCandidate(last.before) # <<>> =>
                 \E i \in 1..(Len(tree[Manifest]) - 1) :
                     /\ tree[Manifest][i] = "start: node"
                     /\ tree[Manifest][i + 1] = Head(FirstCandidate(last.before))

EntryPy == Path(Root, "app.py")
\* the fix run just made worked on a flask entry file that calls app.run()
FlaskFixed ==
    /\ Applied /\ last.failed = {}
    /\ report.project_type.primary = "python"
    /\ "flask" \in Range(report.project_type.frameworks)
    /\ ReadOk(last.before, EntryPy)
    /\ \E i \in 1..Len(last.before[EntryPy]) : At(last.before[EntryPy], i, <<"app.run(", ")">>)

\* C15: after apply_fixes no app.run() is left, the run call binds 0.0.0.0 and reads
\* PORT with default 5000, no debug=True flag is left, import os is the first line if
\* the file did not import os and is not added otherwise, and start.sh exists.
C15_FlaskRunCall ==
    FlaskFixed =>
        LET c == last.before[EntryPy]
            d == tree[EntryPy]
        IN  /\ ~\E i \in 1..Len(d) : At(d, i, <<"app.run(", ")">>)
            /\ \E i \in 1..Len(d) :
                   At(d, i, << "app.run(", "host", "=", "\"", "0.0.0.0", "\"", ",", "port", "=",
                               "int(", "os.environ.get(PORT", ",", "5000", ")", ")" >>)
            /\ "debug=True" \notin Range(d)
            /\ IF "import os" \in Range(c)
               THEN Cardinality({i \in 1..Len(d) : d[i] = "import os"})
                        = Cardinality({i \in 1..Len(c) : c[i] = "import os"})
               ELSE d[1] = "import os" /\ Cardinality({i \in 1..Len(d) : d[i] = "import os"}) = 1
            /\ RootExists(tree, "start.sh")

\* the last configuration call was an update of a structured file that wrote
Merged == request.kind \in {"update_json", "update_yaml"} /\ response.success
\* the document the update found: the empty mapping when there was no file or
\* a YAML file of no characters
Found ==
    IF Exists(response.before, request.path) /\ response.before[request.path] # EmptyFile
    THEN response.before[request.path]
    ELSE <<>>

\* C16: the document written back by a structured update has the keys of the
\* existing document and of the new data, the new value for every key of the
\* new data and the old value for every other key; updating once more with the
\* same data leaves the file as it is.
C16_ShallowMerge ==
    Merged =>
        LET E == Found
            N == request.data
            W == tree[request.path]
        IN  /\ KeysOf(W) = KeysOf(E) \cup KeysOf(N)
            /\ Len(W) = Cardinality(KeysOf(W))
            /\ \A k \in KeysOf(N) : ValueOf(W, k) = ValueOf(N, k)
            /\ \A k \in KeysOf(E) \ KeysOf(N) : ValueOf(W, k) = ValueOf(E, k)
            /\ UpdateConfigFile(tree, root, request.path, N) = [t |-> tree, ok |-> TRUE]

C16_Witness ==
    /\ Merged
    /\ \E k \in KeysOf(Found) \cap KeysOf(request.data) :
           ValueOf(Found, k) # ValueOf(request.data, k)
    /\ KeysOf(Found) \ KeysOf(request.data) # {}
    /\ KeysOf(request.data) \ KeysOf(Found) # {}

\* the documented rules of the form, on the values without surrounding blanks
Label(s) ==
    /\ s # <<>>
    /\ \A i \in 1..Len(s) : s[i] \in Alnum \cup {"-"}
    /\ s[1] # "-" /\ s[Len(s)] # "-"
DocumentedDomain(s) ==
    \E k \in 1..Len(s) :
        /\ s[k] = "."
        /\ Label(SubSeq(s, 1, k - 1))
        /\ Len(s) - k >= 2
        /\ \A i \in (k + 1)..Len(s) : s[i] \in Letters
DocumentedRules(data) ==
    /\ DocumentedDomain(Strip(data.domain))
    /\ Len(Strip(data.username)) \in 3..20
    /\ \A i \in 1..Len(Strip(data.username)) : Strip(data.username)[i] \in Alnum \cup {"_"}
    /\ Len(data.password) >= 8

\* C17 (persist only if valid): a form that is saved meets the documented rules.
C17_SavedOnlyIfValid ==
    (request.kind = "save" /\ response.success) => DocumentedRules(request.data)
\* C17 (failure writes nothing): a rejected form leaves the configuration
\* directory as it was and answers with an error.
C17_RejectedWritesNothing ==
    (request.kind = "save" /\ ~response.success) =>
        (tree = response.before /\ response.error # "")
\* C17: the form is saved only if the domain is label-dot-label with a final
\* label of at least 2 characters, the username has 3 to 20 alphanumeric or
\* underscore characters and the password at least 8 characters; every form
\* meeting the rules is accepted; a rejected form writes nothing and answers
\* with an error.
C17_ValidationContract ==
    request.kind = "save" =>
        /\ response.success <=> DocumentedRules(request.data)
        /\ ~response.success => (tree = response.before /\ response.error # "")

StageOrder == << "clone", "analysis", "fix", "deploy" >>

\* C18: the stages run in the order clone, analysis, fix, deploy; analysis runs
\* only after a successful clone and fix only after a successful analysis; once
\* the fix stage has run, whatever its outcome, the deploy stage can run; after
\* a failed clone or analysis no stage can run.
C18_StageOrder ==
    /\ Len(stages) <= 4
    /\ \A i \in 1..Len(stages) : stages[i].stage = StageOrder[i]
    /\ \A i \in 2..Len(stages) : StageOrder[i - 1] \in {"clone", "analysis"} => stages[i - 1].ok
    /\ Len(stages) = 3 => ENABLED (\E deployed \in BOOLEAN : DeployProject(deployed))
    /\ (Len(stages) \in 1..2 /\ ~stages[Len(stages)].ok) => ~ENABLED NextDeploy

\* the fix stage failed or applied nothing, and the deploy stage ran
C18_Witness ==
    /\ Len(stages) = 4
    /\ ~stages[3].ok
    /\ stages[4].stage = "deploy"

\* the names of the important files the report of the last analyze call lists
ImportantOfReport ==
    {NameOf(report.structure.important_files[i]) : i \in 1..Len(report.structure.important_files)}

\* C21: the report of an analyze call has the high missing-manifest issue exactly
\* when its own primary stack is nodejs and its own important files hold no
\* package.json, and the medium one exactly when its own primary stack is python
\* and its own important files hold neither requirements.txt nor setup.py.
C21_ManifestRulesOfThisCall ==
    Analyzed =>
        /\ HasIssue("missing_file", "high")
              <=> (/\ report.project_type.primary = "nodejs"
                   /\ "package.json" \notin ImportantOfReport)
        /\ HasIssue("missing_file", "medium")
              <=> (/\ report.project_type.primary = "python"
                   /\ ImportantOfReport \cap {"requirements.txt", "setup.py"} = {})

\* the fix run just made was one on a nodejs tree in which no write failed
NodeFixed == Applied /\ last.failed = {} /\ report.project_type.primary = "nodejs"
\* the content _fix_nodejs_main_file proposes for a content
ProposedMain(c) ==
    IF NeedsListenBlock(FixListen(c)) THEN FixListen(c) \o NodeListenBlock ELSE FixListen(c)
\* the entries the last call added for the entry-file rule
MainFileEntries(name) ==
    {i \in 1..Len(Added) : Added[i] \in {<<"Added proper port binding to Node.js app">>,
                                         <<"Fixed port binding in", name>>}}

\* C22 (manifest rule): the manifest is rewritten with another text exactly when
\* the ledger gains the start-script entry.
C22_ManifestWrittenIffEntry ==
    (NodeFixed /\ JsonOk(last.before, Manifest)) =>
        (tree[Manifest] # last.before[Manifest]
            <=> <<"Added start script to package.json">> \in Range(Added))
\* C22 (entry-file rule): the ledger gains exactly one entry for the entry file
\* when the rule's proposed content differs from the current one, none otherwise.
C22_MainFileOneEntry ==
    (NodeFixed /\ ListenEntry(last.before) # <<>> /\ ReadOk(last.before, ListenEntry(last.before))) =>
        LET p == ListenEntry(last.before)
        IN  Cardinality(MainFileEntries(NameOf(p)))
                = IF ProposedMain(last.before[p]) # last.before[p] THEN 1 ELSE 0
\* C22: for the rules of a nodejs tree, a file is written exactly when the
\* proposed content differs, with exactly one ledger entry per file changed and
\* none for a file left as it was.
C22_OneEntryPerMutation == C22_ManifestWrittenIffEntry /\ C22_MainFileOneEntry

\* the rules apply_fixes enters for a primary stack, in their order
RulesFor(primary) ==
    (IF primary \in {"nodejs", "python", "php"} THEN << primary >> ELSE <<>>) \o GenericRules

BlockMarkers ==
    { "# Added by deployment fix", "// Added by deployment fix",
      "# Environment Configuration - Added by deployment fix", "# Deployment Configuration Notes" }
Occurrences(c, tok) == Cardinality({i \in 1..Len(c) : c[i] = tok})

\* C24: whatever the number of fix runs, no file holds one of the appended or
\* created blocks more than once.
C24_BlockAtMostOnce ==
    \A p \in DOMAIN tree : \A m \in BlockMarkers : Occurrences(tree[p], m) <= 1

\* the stack-specific rules of the report's primary stack do not work on the file
OnlyRebound(p) ==
    \/ DirOf(p) # Root
    \/ Ext(NameOf(p)) = ".js" /\ report.project_type.primary # "nodejs"
    \/ Ext(NameOf(p)) = ".py" /\ report.project_type.primary # "python"
\* token i of c is the value behind a host, bind or listen key and = or :, a
\* quote between them or not
InHostContext(c, i) ==
    LET Key(j) == j >= 1 /\ c[j] \in {"host", "HOST", "bind", "BIND", "listen", "LISTEN"}
        Operator(j) == j >= 1 /\ c[j] \in {"=", ":"}
    IN  \/ Operator(i - 1) /\ Key(i - 2)
        \/ i - 1 >= 1 /\ c[i - 1] \in Quotes /\ Operator(i - 2) /\ Key(i - 3)
Loopback == {"localhost", "127.0.0.1"}

\* C25: in a file on which only host rebinding works, apply_fixes changes a
\* token only if it is localhost or 127.0.0.1 standing as the value behind a
\* host, bind or listen key (any case) and = or :, and changes it to 0.0.0.0;
\* every other token, a loopback literal elsewhere included, stays as it was.
C25_HostRebindingScoped ==
    Applied =>
        \A p \in DOMAIN last.before :
            OnlyRebound(p) =>
                /\ p \in DOMAIN tree
                /\ Len(tree[p]) = Len(last.before[p])
                /\ \A i \in 1..Len(tree[p]) :
                       tree[p][i] # last.before[p][i] =>
                           /\ last.before[p][i] \in Loopback
                           /\ InHostContext(last.before[p], i)
                           /\ tree[p][i] = "0.0.0.0"

C25_Witness ==
    /\ Applied
    /\ \E p \in DOMAIN last.before :
          /\ OnlyRebound(p) /\ p \in DOMAIN tree
          /\ \E i \in 1..Len(tree[p]) : tree[p][i] # last.before[p][i]
          /\ \E i \in 1..Len(tree[p]) :
                tree[p][i] \in Loopback /\ ~InHostContext(last.before[p], i)
          /\ \E i \in 1..Len(tree[p]) :
                last.before[p][i] = "HOST" /\ tree[p][i + 2] = "0.0.0.0"

Settings == Path(Root, "settings.py")
EnvDebug == "DEBUG = os.environ.get(DEBUG, False).lower() == true"
\* the fix run just made looked at the settings file of a django tree: it is
\* readable and stands beside an entry file of the python rules
DjangoFixed ==
    /\ Applied /\ last.failed = {}
    /\ report.project_type.primary = "python"
    /\ "django" \in Range(report.project_type.frameworks)
    /\ "flask" \notin Range(report.project_type.frameworks)
    /\ \E i \in 1..Len(PythonMainFiles) : ReadOk(last.before, Path(Root, PythonMainFiles[i]))
    /\ ReadOk(last.before, Settings)

\* C26: after the fix run the settings file has no empty allow-list (each one
\* reads as the wildcard list followed by the marker comment) and no
\* unconditional DEBUG = True (each one reads DEBUG from the environment); a file
\* that reads the environment imports os; the ledger has the entry of a rewrite
\* exactly when its pattern was there; a file with neither pattern is as it was.
C26_DjangoSettingsHardened ==
    DjangoFixed =>
        LET c == last.before[Settings]
            d == tree[Settings]
            hosts == "ALLOWED_HOSTS = []" \in Range(c)
            debug == "DEBUG = True" \in Range(c)
        IN  /\ "ALLOWED_HOSTS = []" \notin Range(d)
            /\ "DEBUG = True" \notin Range(d)
            /\ Occurrences(d, "ALLOWED_HOSTS = [*]")
                   = Occurrences(c, "ALLOWED_HOSTS = [*]") + Occurrences(c, "ALLOWED_HOSTS = []")
            /\ \A i \in 1..Len(d) :
                   (d[i] = "ALLOWED_HOSTS = [*]" /\ "ALLOWED_HOSTS = [*]" \notin Range(c))
                       => (i < Len(d) /\ d[i + 1] = "# Fixed for deployment")
            /\ Occurrences(d, EnvDebug) = Occurrences(c, EnvDebug) + Occurrences(c, "DEBUG = True")
            /\ debug => "import os" \in Range(d)
            /\ Occurrences(d, "import os")
                   = Occurrences(c, "import os") + (IF debug /\ "import os" \notin Range(c) THEN 1 ELSE 0)
            /\ <<"Fixed Django ALLOWED_HOSTS setting">> \in Range(Added) <=> hosts
            /\ <<"Fixed Django DEBUG setting for production">> \in Range(Added) <=> debug
            /\ (~hosts /\ ~debug) => d = c

\* a settings file with both patterns and no os import was hardened
C26_Witness ==
    /\ DjangoFixed
    /\ "ALLOWED_HOSTS = []" \in Range(last.before[Settings])
    /\ "DEBUG = True" \in Range(last.before[Settings])
    /\ "import os" \notin Range(last.before[Settings])
    /\ tree[Settings][1] = "import os"

\* the hardcoded_config issues the report has for a file
HardcodedIssuesOf(p) ==
    {i \in 1..Len(report.potential_issues) :
        /\ report.potential_issues[i].type = "hardcoded_config"
        /\ report.potential_issues[i].files = <<p>>}
\* the keywords the lower-cased content of a file contains
KeywordsIn(c) == UNION {Sensitive(c[i]) : i \in 1..Len(c)}
\* the description of the first keyword of the fixed order among a set of keywords
FirstKeywordFound(ks) ==
    IF "localhost" \in ks THEN "Hardcoded localhost references found"
    ELSE IF "127.0.0.1" \in ks THEN "Hardcoded local IP addresses found"
    ELSE IF "password" \in ks THEN "Potential hardcoded passwords found"
    ELSE "Potential hardcoded secrets found"

\* C27: the report of an analyze call has at most one hardcoded_config issue for
\* every .py, .js or .json file of the tree, of severity medium; it has one
\* exactly when the content holds one of the keywords, and the issue names the
\* first keyword of the order localhost, 127.0.0.1, password, secret it holds.
C27_FirstKeywordPerFile ==
    Analyzed =>
        \A p \in DOMAIN tree :
            /\ Cardinality(HardcodedIssuesOf(p))
                   = IF HardcodedScanned(NameOf(p)) /\ KeywordsIn(tree[p]) # {} THEN 1 ELSE 0
            /\ \A i \in HardcodedIssuesOf(p) :
                   /\ report.potential_issues[i].severity = "medium"
                   /\ report.potential_issues[i].description = FirstKeywordFound(KeywordsIn(tree[p]))

\* a file whose text names password before 127.0.0.1 is reported for 127.0.0.1
C27_Witness ==
    /\ Analyzed
    /\ \E p \in DOMAIN tree :
          /\ {"127.0.0.1", "password", "secret"} \subseteq KeywordsIn(tree[p])
          /\ \E i \in HardcodedIssuesOf(p) :
                report.potential_issues[i].description = "Hardcoded local IP addresses found"

\* C28: when apply_fixes adds a start script to the manifest of a nodejs tree that
\* has an entry file, the script starts the file whose listen call the
\* entry-file rule works on.
C28_StartScriptNamesFixedEntry ==
    (/\ NodeFixed
     /\ JsonOk(last.before, Manifest)
     /\ <<"Added start script to package.json">> \in Range(Added)
     /\ ListenEntry(last.before) # <<>>) =>
        \E i \in 1..(Len(tree[Manifest]) - 1) :
            /\ tree[Manifest][i] = "start: node"
            /\ tree[Manifest][i + 1] = NameOf(ListenEntry(last.before))

\* C29: a fix run in which no write failed creates the .env file exactly when the
\* report it was given has the missing_env issue.
C29_EnvFileIffMissingEnv ==
    (Applied /\ last.failed = {}) =>
        (<<"Created .env file with deployment configuration">> \in Range(Added)
            <=> HasIssue("missing_env", "low"))


\* ---- C30
\* the names apply_fixes generates files under
Artifacts == {"start.sh", ".env", "DEPLOYMENT_NOTES.md", ".htaccess", "run.py"}

\* the content of the files of those names that the project came with
UserContent == {Plain, <<"PORT=8000", NL>>}

\* C30: apply_fixes never overwrites a file it did not create: a file named
\* start.sh, .env, DEPLOYMENT_NOTES.md, .htaccess or run.py that holds the
\* project's own content before the call holds the same content after it
C30_UserFilesKept ==
    Applied =>
        \A n \in Artifacts :
            (RootExists(last.before, n) /\ last.before[Path(Root, n)] \in UserContent)
                => (RootExists(tree, n) /\ tree[Path(Root, n)] = last.before[Path(Root, n)])

====
